---- MODULE Spec2Model ----
(***************************************************************************)
(* Announcements endpoints of the High School Management System API        *)
(* (src/backend/routers/announcements.py): list, create, update, delete,   *)
(* over a document collection, gated by a teacher lookup.                  *)
(*                                                                         *)
(* Strings that the code parses, trims or compares (messages, dates,       *)
(* announcement ids) are sequences of one-character strings, so trimming,  *)
(* strptime, ObjectId parsing and the store's string comparison are        *)
(* computed character by character.  Usernames are only compared for       *)
(* equality and stay plain strings.                                        *)
(***************************************************************************)
EXTENDS Integers, Sequences, FiniteSets, TLC

VARIABLES announcements, now, nextId, deleted, pc, local, resp, inputs

vars == <<announcements, now, nextId, deleted, pc, local, resp, inputs>>

(***************************************************************************)
(* announcements  the announcements collection: ObjectId -> document       *)
(* now            the reading of the server's clock                        *)
(* nextId         how many ObjectIds insert_one has generated              *)
(* deleted        the ObjectIds a delete has removed (history)             *)
(* pc             where each client's request is: "idle" (none sent),      *)
(*                "update" / "delete" (the handler is between its          *)
(*                existence check and its write), "done" (answered)        *)
(* local          the request each handler under way is working on         *)
(* resp           the response each client is reading                      *)
(* inputs         the parameter values this behaviour's requests use       *)
(***************************************************************************)

(***************************************************************************)
(* Bounds of the model.                                                    *)
(***************************************************************************)
\* ObjectIds the store hands out in one behaviour
MaxCreates == 2
\* ticks of the clock in one behaviour (ten days each)
MaxClock == 1

\* Python's None (an omitted optional parameter, a null field)
None == <<"None">>

(***************************************************************************)
(* Characters and strings.                                                 *)
(***************************************************************************)
Digits == <<"0", "1", "2", "3", "4", "5", "6", "7", "8", "9">>

IsDigit(c) == \E i \in 1..10 : Digits[i] = c

DigitVal(c) == (CHOOSE i \in 1..10 : Digits[i] = c) - 1

\* code point of a character, for the store's binary string comparison
Ord(c) ==
    CASE c = " " -> 32
      [] c = "-" -> 45
      [] c = "/" -> 47
      [] IsDigit(c) -> 48 + DigitVal(c)
      [] OTHER -> 127

RECURSIVE StrLess(_, _)
\* a < b in the store's ordering of strings (lexicographic by code point)
StrLess(a, b) ==
    IF b = <<>> THEN FALSE
    ELSE IF a = <<>> THEN TRUE
    ELSE IF Ord(Head(a)) # Ord(Head(b)) THEN Ord(Head(a)) < Ord(Head(b))
    ELSE StrLess(Tail(a), Tail(b))

\* the $gte operator on two strings
StrGte(a, b) == ~StrLess(a, b)

IsSpace(c) == c \in {" ", "\t", "\n"}

RECURSIVE LStrip(_)
LStrip(s) == IF s # <<>> /\ IsSpace(Head(s)) THEN LStrip(Tail(s)) ELSE s

RECURSIVE RStrip(_)
RStrip(s) ==
    IF s # <<>> /\ IsSpace(s[Len(s)]) THEN RStrip(SubSeq(s, 1, Len(s) - 1)) ELSE s

\* str.strip()
Strip(s) == RStrip(LStrip(s))

(***************************************************************************)
(* Dates: datetime.strptime(s, "%Y-%m-%d") and strftime("%Y-%m-%d").       *)
(***************************************************************************)
\* %Y : \d\d\d\d
YearField(t) == Len(t) = 4 /\ \A i \in 1..4 : IsDigit(t[i])

\* %m : 1[0-2]|0[1-9]|[1-9]
MonthField(t) ==
    \/ Len(t) = 2 /\ t[1] = "1" /\ t[2] \in {"0", "1", "2"}
    \/ Len(t) = 2 /\ t[1] = "0" /\ IsDigit(t[2]) /\ t[2] # "0"
    \/ Len(t) = 1 /\ IsDigit(t[1]) /\ t[1] # "0"

\* %d : 3[0-1]|[1-2]\d|0[1-9]|[1-9]| [1-9]
DayField(t) ==
    \/ Len(t) = 2 /\ t[1] = "3" /\ t[2] \in {"0", "1"}
    \/ Len(t) = 2 /\ t[1] \in {"1", "2"} /\ IsDigit(t[2])
    \/ Len(t) = 2 /\ t[1] \in {"0", " "} /\ IsDigit(t[2]) /\ t[2] # "0"
    \/ Len(t) = 1 /\ IsDigit(t[1]) /\ t[1] # "0"

RECURSIVE FieldVal(_)
\* int() of a matched field (a leading blank or zero counts for nothing)
FieldVal(t) ==
    IF t = <<>> THEN 0
    ELSE (IF IsDigit(t[Len(t)]) THEN DigitVal(t[Len(t)]) ELSE 0)
         + 10 * FieldVal(SubSeq(t, 1, Len(t) - 1))

IsLeap(y) == (y % 4 = 0 /\ y % 100 # 0) \/ y % 400 = 0

DaysInMonth(y, m) ==
    IF m = 2 THEN (IF IsLeap(y) THEN 29 ELSE 28)
    ELSE IF m \in {4, 6, 9, 11} THEN 30 ELSE 31

\* where the month field ends: the format's second "-" follows it
MonthLen(s) == IF Len(s) >= 7 /\ s[7] = "-" THEN 1 ELSE 2

\* the whole string matches %Y-%m-%d, nothing left unconverted
StrptimeMatch(s) ==
    /\ Len(s) >= 8
    /\ YearField(SubSeq(s, 1, 4))
    /\ s[5] = "-"
    /\ Len(s) >= 7 + MonthLen(s)
    /\ MonthField(SubSeq(s, 6, 5 + MonthLen(s)))
    /\ s[6 + MonthLen(s)] = "-"
    /\ DayField(SubSeq(s, 7 + MonthLen(s), Len(s)))

\* the date a matching string denotes
StrptimeDate(s) ==
    [y |-> FieldVal(SubSeq(s, 1, 4)),
     m |-> FieldVal(SubSeq(s, 6, 5 + MonthLen(s))),
     d |-> FieldVal(SubSeq(s, 7 + MonthLen(s), Len(s)))]

\* strptime returns instead of raising ValueError
StrptimeOK(s) ==
    /\ StrptimeMatch(s)
    /\ StrptimeDate(s).y >= 1
    /\ StrptimeDate(s).d <= DaysInMonth(StrptimeDate(s).y, StrptimeDate(s).m)

Pad2(n) == <<Digits[(n \div 10) + 1], Digits[(n % 10) + 1]>>

Pad4(n) == Pad2(n \div 100) \o Pad2(n % 100)

\* strftime("%Y-%m-%d")
Strftime(date) == Pad4(date.y) \o <<"-">> \o Pad2(date.m) \o <<"-">> \o Pad2(date.d)

\* the calendar's order of two dates
DateLess(a, b) ==
    \/ a.y < b.y
    \/ a.y = b.y /\ a.m < b.m
    \/ a.y = b.y /\ a.m = b.m /\ a.d < b.d

\* datetime.now() at clock reading t: 2026-11-05 and ten days more per tick
Today(t) ==
    LET k == 4 + 10 * t
    IN  IF k < 30 THEN [y |-> 2026, m |-> 11, d |-> k + 1]
        ELSE [y |-> 2026, m |-> 12, d |-> ((k - 30) % 31) + 1]

(***************************************************************************)
(* ObjectIds: twelve bytes, written as twenty-four hexadecimal digits.     *)
(***************************************************************************)
HexLower == <<"0", "1", "2", "3", "4", "5", "6", "7", "8", "9",
              "a", "b", "c", "d", "e", "f">>

HexUpper == <<"0", "1", "2", "3", "4", "5", "6", "7", "8", "9",
              "A", "B", "C", "D", "E", "F">>

IsHex(c) == \E i \in 1..16 : HexLower[i] = c \/ HexUpper[i] = c

HexVal(c) == (CHOOSE i \in 1..16 : HexLower[i] = c \/ HexUpper[i] = c) - 1

\* ObjectId(s) returns instead of raising InvalidId
ObjectIdValid(s) == Len(s) = 24 /\ \A i \in 1..24 : IsHex(s[i])

\* ObjectId(s): the twelve bytes, as twenty-four half-bytes
ObjectId(s) == [i \in 1..24 |-> HexVal(s[i])]

\* str(oid): lower-case hexadecimal
OidStr(oid) == [i \in 1..24 |-> HexLower[oid[i] + 1]]

\* the n-th ObjectId the store generates
NewObjectId(n) ==
    [i \in 1..24 |->
        IF i = 24 THEN n % 16
        ELSE IF i = 23 THEN (n \div 16) % 16
        ELSE 0]

(***************************************************************************)
(* Optional query parameters with a default: <<>> when the client omits    *)
(* the parameter, <<v>> when it sends v.                                   *)
(***************************************************************************)
Omitted == <<>>

Param(x, default) == IF x = Omitted THEN default ELSE x[1]

\* Python's truth value of an Optional[str]
Truthy(s) == s # None /\ s # <<>>

(***************************************************************************)
(* The collaborators: teachers_collection (read only here) and the         *)
(* announcements collection, a function from ObjectId to document.         *)
(***************************************************************************)
Teachers == {"t1", "t2"}

\* teachers_collection.find_one({"_id": teacher_username}) finds a record
TeacherFound(teacher_username) == teacher_username \in Teachers

\* announcements_collection.find_one({"_id": oid}) finds a document
AnnouncementFound(store, oid) == oid \in DOMAIN store

\* insert_one: the collection with one more document under a new id
InsertOne(store, oid, doc) ==
    [k \in DOMAIN store \cup {oid} |-> IF k = oid THEN doc ELSE store[k]]

\* update_one called with upsert=True: no match, a new document of the set fields
UpdateOne_Upsert(store, oid, data) ==
    [k \in DOMAIN store \cup {oid} |->
        IF k # oid THEN store[k]
        ELSE [message |-> data.message,
              start_date |-> data.start_date,
              expiration_date |-> data.expiration_date,
              created_by |-> IF oid \in DOMAIN store THEN store[oid].created_by ELSE None,
              created_at |-> IF oid \in DOMAIN store THEN store[oid].created_at ELSE 0,
              is_active |-> data.is_active]]

\* update_one({"_id": oid}, {"$set": data}): no match, no write
UpdateOne(store, oid, data) ==
    IF oid \in DOMAIN store
    THEN [store EXCEPT ![oid] =
            [message |-> data.message,
             start_date |-> data.start_date,
             expiration_date |-> data.expiration_date,
             created_by |-> @.created_by,
             created_at |-> @.created_at,
             is_active |-> data.is_active]]
    ELSE store

\* update_one({"_id": oid}, ...).matched_count
MatchedCount(store, oid) == IF oid \in DOMAIN store THEN 1 ELSE 0

\* delete_one({"_id": oid}).deleted_count
DeletedCount(store, oid) == IF oid \in DOMAIN store THEN 1 ELSE 0

\* a soft delete: the document stays, marked inactive
DeleteOne_Soft(store, oid) ==
    IF oid \in DOMAIN store THEN [store EXCEPT ![oid].is_active = FALSE] ELSE store

\* delete_one({"_id": oid}): the collection afterwards
DeleteOne(store, oid) == [k \in DOMAIN store \ {oid} |-> store[k]]

(***************************************************************************)
(* Validation shared by create and update.                                 *)
(***************************************************************************)
\* not message or not message.strip()
MessageMissing(message) == message = <<>> \/ Strip(message) = <<>>

\* not expiration_date
ExpirationMissing(expiration_date) == expiration_date = <<>>

\* the try block around strptime passes
DateFormatOK(expiration_date, start_date) ==
    /\ StrptimeOK(expiration_date)
    /\ Truthy(start_date) => StrptimeOK(start_date)

\* the status of the validation block: 0 when it raises nothing
ValidateFields(message, expiration_date, start_date) ==
    IF MessageMissing(message) THEN 400
    ELSE IF ExpirationMissing(expiration_date) THEN 400
    ELSE IF ~DateFormatOK(expiration_date, start_date) THEN 400
    ELSE 0

(***************************************************************************)
(* get_announcements                                                       *)
(***************************************************************************)
\* the query of active_only: is_active and not yet expired, in the store's terms
ActiveQuery(doc, current_date) ==
    /\ doc.is_active = TRUE
    /\ \/ doc.expiration_date # None /\ StrGte(doc.expiration_date, current_date)
       \/ doc.expiration_date = None

\* the ids find(query) matches
FindIds(store, clock, active_only) ==
    IF active_only
    THEN {k \in DOMAIN store : ActiveQuery(store[k], Strftime(Today(clock)))}
    ELSE DOMAIN store

\* a document as returned: its fields and "_id" as a string
Serialized(store, k) ==
    [id |-> OidStr(k),
     message |-> store[k].message,
     start_date |-> store[k].start_date,
     expiration_date |-> store[k].expiration_date,
     created_by |-> store[k].created_by,
     created_at |-> store[k].created_at,
     is_active |-> store[k].is_active]

\* the orders sort("created_at", -1) can return the ids in
SortedByCreatedAtDesc(store, ids) ==
    {f \in [1..Cardinality(ids) -> ids] :
        /\ \A i, j \in 1..Cardinality(ids) : i # j => f[i] # f[j]
        /\ \A i, j \in 1..Cardinality(ids) :
              i < j => store[f[i]].created_at >= store[f[j]].created_at}

\* the lists get_announcements can return
get_announcements(store, clock, active_only) ==
    {[i \in 1..Cardinality(FindIds(store, clock, active_only)) |-> Serialized(store, f[i])] :
        f \in SortedByCreatedAtDesc(store, FindIds(store, clock, active_only))}

(***************************************************************************)
(* create_announcement                                                     *)
(***************************************************************************)
\* the status create_announcement raises before it inserts, 0 if none
create_check(r) ==
    IF ~TeacherFound(r.teacher_username) THEN 401
    ELSE ValidateFields(r.message, r.expiration_date, r.start_date)

\* create_document with the announcement left inactive until someone activates it
create_document_Inactive(r, clock) ==
    [message |-> Strip(r.message),
     start_date |-> r.start_date,
     expiration_date |-> r.expiration_date,
     created_by |-> r.teacher_username,
     created_at |-> clock,
     is_active |-> FALSE]

\* the announcement document
create_document(r, clock) ==
    [message |-> Strip(r.message),
     start_date |-> r.start_date,
     expiration_date |-> r.expiration_date,
     created_by |-> r.teacher_username,
     created_at |-> clock,
     is_active |-> TRUE]

(***************************************************************************)
(* update_announcement                                                     *)
(***************************************************************************)
\* update_check with the id parsed before the teacher is looked up
update_check_IdFirst(store, r) ==
    IF ~ObjectIdValid(r.announcement_id) THEN 400
    ELSE IF ~TeacherFound(r.teacher_username) THEN 401
    ELSE IF ~AnnouncementFound(store, ObjectId(r.announcement_id)) THEN 404
    ELSE ValidateFields(r.message, r.expiration_date, r.start_date)

\* update_check with the fields validated before the document is looked up
update_check_ValidateFirst(store, r) ==
    IF ~TeacherFound(r.teacher_username) THEN 401
    ELSE IF ~ObjectIdValid(r.announcement_id) THEN 400
    ELSE IF ValidateFields(r.message, r.expiration_date, r.start_date) # 0
         THEN ValidateFields(r.message, r.expiration_date, r.start_date)
    ELSE IF ~AnnouncementFound(store, ObjectId(r.announcement_id)) THEN 404
    ELSE 0

\* the status update_announcement raises before it writes, 0 if none
update_check(store, r) ==
    IF ~TeacherFound(r.teacher_username) THEN 401
    ELSE IF ~ObjectIdValid(r.announcement_id) THEN 400
    ELSE IF ~AnnouncementFound(store, ObjectId(r.announcement_id)) THEN 404
    ELSE ValidateFields(r.message, r.expiration_date, r.start_date)

\* update_data with the message stored as sent
update_data_Raw(r) ==
    [message |-> r.message,
     start_date |-> r.start_date,
     expiration_date |-> r.expiration_date,
     is_active |-> Param(r.is_active, TRUE)]

\* the fields update_announcement sets
update_data(r) ==
    [message |-> Strip(r.message),
     start_date |-> r.start_date,
     expiration_date |-> r.expiration_date,
     is_active |-> Param(r.is_active, TRUE)]

\* the collection after update_one
update_write(store, r) == UpdateOne(store, ObjectId(r.announcement_id), update_data(r))

(***************************************************************************)
(* delete_announcement                                                     *)
(***************************************************************************)
\* the status delete_announcement raises before it deletes, 0 if none
delete_check(store, r) ==
    IF ~TeacherFound(r.teacher_username) THEN 401
    ELSE IF ~ObjectIdValid(r.announcement_id) THEN 400
    ELSE IF ~AnnouncementFound(store, ObjectId(r.announcement_id)) THEN 404
    ELSE 0

\* delete_status with the failure branch answering like the success branch
delete_status_Unchecked(store, r) ==
    IF DeletedCount(store, ObjectId(r.announcement_id)) = 0 THEN 200 ELSE 200

\* the status after delete_one
delete_status(store, r) ==
    IF DeletedCount(store, ObjectId(r.announcement_id)) = 0 THEN 500 ELSE 200

\* the collection after delete_one
delete_write(store, r) == DeleteOne(store, ObjectId(r.announcement_id))

(***************************************************************************)
(* Requests and responses.  local[p] is the request a handler is working   *)
(* on between its existence check and its write; resp[p] is the response   *)
(* client p is reading, with the request it answers.  inputs holds the     *)
(* values the clients of one behaviour draw their parameters from.         *)
(***************************************************************************)
Procs == {"p1", "p2"}

\* a request: the operation and its path and query parameters
Request(op, teacher, id, message, expiration, start, active, only) ==
    [op |-> op,
     teacher_username |-> teacher,
     announcement_id |-> id,
     message |-> message,
     expiration_date |-> expiration,
     start_date |-> start,
     is_active |-> active,
     active_only |-> only]

NoRequest == Request("none", "", None, None, None, None, Omitted, Omitted)

\* the request's id names a document of the collection
IdIn(r, ids) ==
    /\ r.op \in {"update", "delete"}
    /\ ObjectIdValid(r.announcement_id)
    /\ ObjectId(r.announcement_id) \in ids

\* a request as a handler takes it up: what was true when it arrived
Arrived(p, r) ==
    [req |-> r,
     existed |-> IdIn(r, DOMAIN announcements),
     wasDeleted |-> IdIn(r, deleted),
     alone |-> \A q \in Procs \ {p} : pc[q] \in {"idle", "done"}]

NoLocal == [req |-> NoRequest, existed |-> FALSE, wasDeleted |-> FALSE, alone |-> TRUE]

\* count: the documents the handler's write call reported (inserted, matched or
\* deleted), -1 when the handler made no write call
Response(l, status, body, count) ==
    [req |-> l.req,
     status |-> status,
     body |-> body,
     count |-> count,
     existed |-> l.existed,
     wasDeleted |-> l.wasDeleted,
     alone |-> l.alone]

NoResponse == Response(NoLocal, 0, None, -1)

\* a step of p lands inside every other request that is under way
Interleaved(p, l) ==
    [q \in Procs |->
        IF q = p THEN l
        ELSE IF pc[q] \in {"update", "delete"} THEN [local[q] EXCEPT !.alone = FALSE]
        ELSE local[q]]

\* the requests clients send: U holds the values each parameter is drawn from
CreateRequests(U) ==
    {Request("create", t, None, m, e, s, Omitted, Omitted) :
        t \in U.teachers, m \in U.messages, e \in U.exps, s \in U.starts}

UpdateRequests(U) ==
    {Request("update", t[1], t[2], m, e, s[1], s[2], Omitted) :
        t \in U.teachers \X U.ids, m \in U.messages, e \in U.exps,
        s \in U.starts \X U.actives}

DeleteRequests(U) ==
    {Request("delete", t, i, None, None, None, Omitted, Omitted) :
        t \in U.teachers, i \in U.ids}

ListRequests(U) ==
    {Request("list", "", None, None, None, None, Omitted, a) : a \in U.active_only}

\* p answers the request l with status and body
Reply(p, l, status, body, count) ==
    /\ resp' = [resp EXCEPT ![p] = Response(l, status, body, count)]
    /\ pc' = [pc EXCEPT ![p] = "done"]
    /\ local' = Interleaved(p, NoLocal)

\* GET /announcements
List(p) ==
    /\ pc[p] = "idle"
    /\ \E r \in ListRequests(inputs) :
         \E body \in get_announcements(announcements, now, Param(r.active_only, TRUE)) :
            Reply(p, Arrived(p, r), 200, body, -1)
    /\ UNCHANGED <<announcements, now, nextId, deleted, inputs>>

\* POST /announcements: one call of the announcements collection, insert_one
Create(p) ==
    /\ pc[p] = "idle"
    /\ \E r \in CreateRequests(inputs) :
         IF create_check(r) # 0
         THEN /\ Reply(p, Arrived(p, r), create_check(r), None, -1)
              /\ UNCHANGED <<announcements, nextId>>
         ELSE /\ nextId < MaxCreates
              /\ announcements' =
                    InsertOne(announcements, NewObjectId(nextId + 1), create_document(r, now))
              /\ nextId' = nextId + 1
              /\ Reply(p, Arrived(p, r), 200,
                       Serialized(announcements', NewObjectId(nextId + 1)), 1)
    /\ UNCHANGED <<now, deleted, inputs>>

\* PUT /announcements/{id} up to its existence check and validation
UpdateFind(p) ==
    /\ pc[p] = "idle"
    /\ \E r \in UpdateRequests(inputs) :
         IF update_check(announcements, r) # 0
         THEN Reply(p, Arrived(p, r), update_check(announcements, r), None, -1)
         ELSE /\ pc' = [pc EXCEPT ![p] = "update"]
              /\ local' = Interleaved(p, Arrived(p, r))
              /\ UNCHANGED resp
    /\ UNCHANGED <<announcements, now, nextId, deleted, inputs>>

\* PUT /announcements/{id} from update_one on
UpdateWrite(p) ==
    /\ pc[p] = "update"
    /\ announcements' = update_write(announcements, local[p].req)
    /\ Reply(p, local[p], 200, None,
             MatchedCount(announcements, ObjectId(local[p].req.announcement_id)))
    /\ UNCHANGED <<now, nextId, deleted, inputs>>

\* DELETE /announcements/{id} up to its existence check
DeleteFind(p) ==
    /\ pc[p] = "idle"
    /\ \E r \in DeleteRequests(inputs) :
         IF delete_check(announcements, r) # 0
         THEN Reply(p, Arrived(p, r), delete_check(announcements, r), None, -1)
         ELSE /\ pc' = [pc EXCEPT ![p] = "delete"]
              /\ local' = Interleaved(p, Arrived(p, r))
              /\ UNCHANGED resp
    /\ UNCHANGED <<announcements, now, nextId, deleted, inputs>>

\* DELETE /announcements/{id} from delete_one on
DeleteWrite(p) ==
    /\ pc[p] = "delete"
    /\ announcements' = delete_write(announcements, local[p].req)
    /\ deleted' =
          IF delete_status(announcements, local[p].req) = 200
          THEN deleted \cup {ObjectId(local[p].req.announcement_id)}
          ELSE deleted
    /\ Reply(p, local[p], delete_status(announcements, local[p].req), None,
             DeletedCount(announcements, ObjectId(local[p].req.announcement_id)))
    /\ UNCHANGED <<now, nextId, inputs>>

\* PUT /announcements/{id}, the whole handler with nothing in between
Update(p) ==
    /\ pc[p] = "idle"
    /\ \E r \in UpdateRequests(inputs) :
         IF update_check(announcements, r) # 0
         THEN /\ Reply(p, Arrived(p, r), update_check(announcements, r), None, -1)
              /\ UNCHANGED announcements
         ELSE /\ announcements' = update_write(announcements, r)
              /\ Reply(p, Arrived(p, r), 200, None,
                       MatchedCount(announcements, ObjectId(r.announcement_id)))
    /\ UNCHANGED <<now, nextId, deleted, inputs>>

\* DELETE /announcements/{id}, the whole handler with nothing in between
Delete(p) ==
    /\ pc[p] = "idle"
    /\ \E r \in DeleteRequests(inputs) :
         IF delete_check(announcements, r) # 0
         THEN /\ Reply(p, Arrived(p, r), delete_check(announcements, r), None, -1)
              /\ UNCHANGED <<announcements, deleted>>
         ELSE /\ announcements' = delete_write(announcements, r)
              /\ deleted' =
                    IF delete_status(announcements, r) = 200
                    THEN deleted \cup {ObjectId(r.announcement_id)}
                    ELSE deleted
              /\ Reply(p, Arrived(p, r), delete_status(announcements, r), None,
                       DeletedCount(announcements, ObjectId(r.announcement_id)))
    /\ UNCHANGED <<now, nextId, inputs>>

\* the client has read its response and may send its next request
Ack(p) ==
    /\ pc[p] = "done"
    /\ pc' = [pc EXCEPT ![p] = "idle"]
    /\ resp' = [resp EXCEPT ![p] = NoResponse]
    /\ UNCHANGED <<announcements, now, nextId, deleted, local, inputs>>

\* time passes
Tick ==
    /\ now < MaxClock
    /\ now' = now + 1
    /\ UNCHANGED <<announcements, nextId, deleted, pc, local, resp, inputs>>

(***************************************************************************)
(* The values requests are made of.                                        *)
(***************************************************************************)
MalformedId == <<"x", "y", "z">>

\* a well-formed id the store never hands out
UnknownId == OidStr(NewObjectId(0))

Ids == {MalformedId, UnknownId} \cup {OidStr(NewObjectId(n)) : n \in 1..MaxCreates}

Blank == <<" ">>
PaddedHi == <<" ", "H", "i", " ">>
Yo == <<"Y", "o">>

\* 2026/11/20
SlashDate == <<"2", "0", "2", "6", "/", "1", "1", "/", "2", "0">>
\* 2026-11-5
ShortDate == <<"2", "0", "2", "6", "-", "1", "1", "-", "5">>
\* 2026-11-10
Nov10 == <<"2", "0", "2", "6", "-", "1", "1", "-", "1", "0">>
\* 2026-11-01
Nov01 == <<"2", "0", "2", "6", "-", "1", "1", "-", "0", "1">>

\* who asks: every teacher name, known or not
Who ==
    [teachers |-> {"t1", "t2", "ghost"},
     ids |-> Ids,
     messages |-> {Blank, Yo},
     exps |-> {Nov10},
     starts |-> {None},
     actives |-> {Omitted},
     active_only |-> {Omitted, <<FALSE>>}]

\* what is said: every message, the active flag
What ==
    [teachers |-> {"t1", "ghost"},
     ids |-> Ids,
     messages |-> {<<>>, Blank, PaddedHi, Yo},
     exps |-> {Nov10},
     starts |-> {None},
     actives |-> {Omitted, <<FALSE>>, <<TRUE>>},
     active_only |-> {Omitted, <<FALSE>>}]

\* until when: every spelling of the expiration date
Expirations ==
    [teachers |-> {"t1", "ghost"},
     ids |-> Ids,
     messages |-> {Blank, Yo},
     exps |-> {<<>>, SlashDate, ShortDate, Nov10},
     starts |-> {None, Nov01},
     actives |-> {Omitted},
     active_only |-> {Omitted, <<FALSE>>}]

\* from when: every spelling of the start date
Starts ==
    [teachers |-> {"t1", "ghost"},
     ids |-> Ids,
     messages |-> {Blank, Yo},
     exps |-> {SlashDate, Nov10},
     starts |-> {None, <<>>, SlashDate, Nov01},
     actives |-> {Omitted},
     active_only |-> {Omitted, <<FALSE>>}]

Workloads == {Who, What, Expirations, Starts}

Init ==
    /\ announcements = <<>>
    /\ now = 0
    /\ nextId = 0
    /\ deleted = {}
    /\ pc = [p \in Procs |-> "idle"]
    /\ local = [p \in Procs |-> NoLocal]
    /\ resp = [p \in Procs |-> NoResponse]
    /\ inputs \in Workloads

(***************************************************************************)
(* Spec: one client, requests one after another, each handler run whole.   *)
(***************************************************************************)
Client == "p1"

Next ==
    \/ List(Client)
    \/ Create(Client)
    \/ Update(Client)
    \/ Delete(Client)
    \/ Ack(Client)
    \/ Tick

Spec == Init /\ [][Next]_vars

(***************************************************************************)
(* SpecConc: two clients whose requests overlap.  A handler's calls of the *)
(* announcements collection are separate steps, so another request can     *)
(* act between an existence check and the write that follows it.           *)
(***************************************************************************)
Overlapping ==
    [teachers |-> {"t1", "ghost"},
     ids |-> Ids \ {MalformedId},
     messages |-> {Yo},
     exps |-> {Nov10},
     starts |-> {None},
     actives |-> {Omitted, <<FALSE>>},
     active_only |-> {Omitted}]

InitConc ==
    /\ announcements = <<>>
    /\ now = 0
    /\ nextId = 0
    /\ deleted = {}
    /\ pc = [p \in Procs |-> "idle"]
    /\ local = [p \in Procs |-> NoLocal]
    /\ resp = [p \in Procs |-> NoResponse]
    /\ inputs = Overlapping

NextConc ==
    \E p \in Procs :
        \/ Create(p)
        \/ UpdateFind(p)
        \/ UpdateWrite(p)
        \/ DeleteFind(p)
        \/ DeleteWrite(p)
        \/ Ack(p)

SpecConc == InitConc /\ [][NextConc]_vars

(***************************************************************************)
(* Properties of the handlers, and the vocabulary they are stated in.      *)
(***************************************************************************)
\* p gets the answer to a request in this step
Answers(p) == pc[p] # "done" /\ pc'[p] = "done"

Writes == {"create", "update", "delete"}

\* the ObjectId a request names (of a well-formed id)
Oid(r) == ObjectId(r.announcement_id)

\* four-digit year, two-digit month, two-digit day, separated by hyphens
IsYYYYMMDD(s) ==
    /\ Len(s) = 10
    /\ \A i \in {1, 2, 3, 4, 6, 7, 9, 10} : IsDigit(s[i])
    /\ s[5] = "-"
    /\ s[8] = "-"

\* a message with something in it besides white space
NonBlank(m) == \E i \in 1..Len(m) : ~IsSpace(m[i])

\* the ids of the documents a list response holds
ListedIds(body) == {body[i].id : i \in 1..Len(body)}

\* C1: a create, update or delete whose teacher_username matches no teacher
\* record is answered 401, whatever its other parameters are, and leaves the
\* announcements collection as it was.
C1_UnauthorizedRejected ==
    [][\A p \in Procs :
        (/\ Answers(p)
         /\ resp'[p].req.op \in Writes
         /\ resp'[p].req.teacher_username \notin Teachers)
        => (resp'[p].status = 401 /\ announcements' = announcements)]_vars

\* an update by an unknown teacher with a blank message and a malformed id got 401
C1_Witness ==
    /\ pc[Client] = "done"
    /\ resp[Client].req.op = "update"
    /\ resp[Client].req.teacher_username = "ghost"
    /\ resp[Client].req.message = Blank
    /\ resp[Client].req.announcement_id = MalformedId
    /\ resp[Client].status = 401

\* the request is a valid create: a known teacher, a message that is not blank,
\* dates in YYYY-MM-DD
ValidCreate(r) ==
    /\ r.op = "create"
    /\ r.teacher_username \in Teachers
    /\ NonBlank(r.message)
    /\ IsYYYYMMDD(r.expiration_date) /\ StrptimeOK(r.expiration_date)
    /\ r.start_date = None \/ (IsYYYYMMDD(r.start_date) /\ StrptimeOK(r.start_date))

\* C2: a valid create, after any earlier requests, returns an announcement with
\* is_active true and a non-empty id that no announcement created before it has
\* (deleted ones included), and adds exactly one document, under that id.
C2_CreateFreshId ==
    [][\A p \in Procs :
        (Answers(p) /\ ValidCreate(resp'[p].req))
        => /\ resp'[p].status = 200
           /\ resp'[p].body.is_active = TRUE
           /\ resp'[p].body.id # <<>>
           /\ \A k \in DOMAIN announcements \cup deleted : resp'[p].body.id # OidStr(k)
           /\ \A n \in 1..nextId : resp'[p].body.id # OidStr(NewObjectId(n))
           /\ ObjectIdValid(resp'[p].body.id)
           /\ DOMAIN announcements' = DOMAIN announcements \cup {ObjectId(resp'[p].body.id)}
           /\ Cardinality(DOMAIN announcements') = Cardinality(DOMAIN announcements) + 1
           /\ \A k \in DOMAIN announcements : announcements'[k] = announcements[k]
           /\ announcements'[ObjectId(resp'[p].body.id)].is_active = TRUE]_vars

\* a second valid create was answered while the first announcement was deleted
C2_Witness ==
    /\ pc[Client] = "done"
    /\ ValidCreate(resp[Client].req)
    /\ resp[Client].status = 200
    /\ deleted # {}
    /\ resp[Client].body.id = OidStr(NewObjectId(2))

\* C4: an update by a known teacher of a well-formed id that names no stored
\* document is answered 404, blank message or not, well-formed dates or not,
\* and leaves the collection as it was.
C4_UpdateUnknownIdNotFound ==
    [][\A p \in Procs :
        (/\ Answers(p)
         /\ resp'[p].req.op = "update"
         /\ resp'[p].req.teacher_username \in Teachers
         /\ ObjectIdValid(resp'[p].req.announcement_id)
         /\ Oid(resp'[p].req) \notin DOMAIN announcements)
        => (resp'[p].status = 404 /\ announcements' = announcements)]_vars

\* an update with a blank message and a malformed date of an id not stored got 404
C4_Witness ==
    /\ pc[Client] = "done"
    /\ resp[Client].req.op = "update"
    /\ resp[Client].req.message = Blank
    /\ resp[Client].req.expiration_date = SlashDate
    /\ resp[Client].status = 404

\* C10: a successful update overwrites message (trimmed), start_date,
\* expiration_date and is_active of its announcement with the request's values,
\* is_active true and start_date absent when omitted, keeps its id, created_by
\* and created_at, whoever updates, and changes no other document nor their number.
C10_UpdateOverwrites ==
    [][\A p \in Procs :
        (Answers(p) /\ resp'[p].req.op = "update" /\ resp'[p].status = 200)
        => /\ Oid(resp'[p].req) \in DOMAIN announcements
           /\ DOMAIN announcements' = DOMAIN announcements
           /\ \A k \in DOMAIN announcements \ {Oid(resp'[p].req)} :
                 announcements'[k] = announcements[k]
           /\ announcements'[Oid(resp'[p].req)] =
                 [message |-> Strip(resp'[p].req.message),
                  start_date |-> resp'[p].req.start_date,
                  expiration_date |-> resp'[p].req.expiration_date,
                  is_active |-> IF resp'[p].req.is_active = Omitted
                                THEN TRUE ELSE resp'[p].req.is_active[1],
                  created_by |-> announcements[Oid(resp'[p].req)].created_by,
                  created_at |-> announcements[Oid(resp'[p].req)].created_at]
           /\ announcements'[Oid(resp'[p].req)].message # <<>>
           /\ ~IsSpace(Head(announcements'[Oid(resp'[p].req)].message))]_vars

\* a teacher other than the creator updated an announcement
C10_Witness ==
    /\ pc[Client] = "done"
    /\ resp[Client].req.op = "update"
    /\ resp[Client].status = 200
    /\ resp[Client].count = 1
    /\ announcements[Oid(resp[Client].req)].created_by # resp[Client].req.teacher_username

\* the calendar date of a stored expiration date is not before today
NotExpired(doc, clock) ==
    doc.expiration_date = None \/ ~DateLess(StrptimeDate(doc.expiration_date), Today(clock))

\* C3: a list with active_only true returns exactly the stored announcements with
\* is_active true and an expiration date on or after the current date (or none):
\* none that expired before today or was made inactive, and all the others.
C3_ActiveListExact ==
    [][\A p \in Procs :
        (/\ Answers(p)
         /\ resp'[p].req.op = "list"
         /\ Param(resp'[p].req.active_only, TRUE))
        => ListedIds(resp'[p].body) =
              {OidStr(k) : k \in {j \in DOMAIN announcements :
                                    /\ announcements[j].is_active = TRUE
                                    /\ NotExpired(announcements[j], now)}}]_vars

\* C6: with a known teacher (and, for an update, a stored document), a create or
\* update whose expiration_date, or supplied start_date, is not four digits, two
\* digits and two digits separated by hyphens is answered 400 and writes nothing.
C6_MalformedDateRejected ==
    [][\A p \in Procs :
        (/\ Answers(p)
         /\ resp'[p].req.op \in {"create", "update"}
         /\ resp'[p].req.teacher_username \in Teachers
         /\ resp'[p].req.op = "update" =>
               (/\ ObjectIdValid(resp'[p].req.announcement_id)
                /\ Oid(resp'[p].req) \in DOMAIN announcements)
         /\ \/ ~IsYYYYMMDD(resp'[p].req.expiration_date)
            \/ /\ Truthy(resp'[p].req.start_date)
               /\ ~IsYYYYMMDD(resp'[p].req.start_date))
        => (resp'[p].status = 400 /\ announcements' = announcements)]_vars

\* C7: every stored announcement has a message that is non-empty and trimmed, an
\* expiration_date that is present and is a date in YYYY-MM-DD, a start_date that
\* is absent or is a date in YYYY-MM-DD, a created_by that names a teacher, and a
\* boolean is_active.
C7_StoredWellFormed ==
    \A k \in DOMAIN announcements :
        /\ announcements[k].message # <<>>
        /\ Strip(announcements[k].message) = announcements[k].message
        /\ announcements[k].expiration_date # None
        /\ IsYYYYMMDD(announcements[k].expiration_date)
        /\ StrptimeOK(announcements[k].expiration_date)
        /\ \/ ~Truthy(announcements[k].start_date)
           \/ /\ IsYYYYMMDD(announcements[k].start_date)
              /\ StrptimeOK(announcements[k].start_date)
        /\ announcements[k].created_by \in Teachers
        /\ announcements[k].is_active \in BOOLEAN

\* p has the answer to a request of a known teacher
Answered(p) == pc[p] = "done" /\ resp[p].req.teacher_username \in Teachers

\* C5: a delete by a known teacher of a stored document, with no other request in
\* between, succeeds and removes it; once a delete of an id has succeeded, every
\* later delete or update of that id is answered 404.
C5_DeletedStaysNotFound ==
    \A p \in Procs :
        Answered(p) =>
            /\ (resp[p].req.op \in {"update", "delete"} /\ resp[p].wasDeleted)
                  => resp[p].status = 404
            /\ (resp[p].req.op = "delete" /\ resp[p].existed /\ resp[p].alone)
                  => /\ resp[p].status = 200
                     /\ Oid(resp[p].req) \in deleted
                     /\ Oid(resp[p].req) \notin DOMAIN announcements

\* two deletes of one id, one after the other: the first got 200, the second 404
C5_Witness ==
    /\ Answered("p1") /\ Answered("p2")
    /\ resp["p1"].req.op = "delete" /\ resp["p2"].req.op = "delete"
    /\ resp["p1"].req.announcement_id = resp["p2"].req.announcement_id
    /\ resp["p1"].alone /\ resp["p2"].alone
    /\ resp["p1"].status = 200
    /\ resp["p2"].wasDeleted
    /\ resp["p2"].status = 404

\* C8: a delete is answered 500 exactly when delete_one reports no document
\* removed after the existence check found one, which takes another delete
\* removing that document in between; a delete with no other request in between
\* is never answered 500; of two overlapping deletes of one stored id exactly one
\* gets 200 and the other 404 or 500.
C8_DeleteRace ==
    /\ \A p \in Procs :
          pc[p] = "done" =>
              /\ resp[p].status = 500 <=> (resp[p].req.op = "delete" /\ resp[p].count = 0)
              /\ (resp[p].req.op = "delete" /\ resp[p].count = 0)
                    => /\ resp[p].existed
                       /\ ~resp[p].wasDeleted
                       /\ ~resp[p].alone
                       /\ Oid(resp[p].req) \in deleted
                       /\ Oid(resp[p].req) \notin DOMAIN announcements
              /\ resp[p].alone => resp[p].status # 500
    /\ \A p, q \in Procs :
          (/\ p # q
           /\ Answered(p) /\ Answered(q)
           /\ resp[p].req.op = "delete" /\ resp[q].req.op = "delete"
           /\ resp[p].req.announcement_id = resp[q].req.announcement_id
           /\ resp[p].existed /\ resp[q].existed)
          => \/ resp[p].status = 200 /\ resp[q].status \in {404, 500}
             \/ resp[q].status = 200 /\ resp[p].status \in {404, 500}

\* two overlapping deletes of one stored id: one got 200, the other 500
C8_Witness ==
    /\ Answered("p1") /\ Answered("p2")
    /\ resp["p1"].req.op = "delete" /\ resp["p2"].req.op = "delete"
    /\ resp["p1"].req.announcement_id = resp["p2"].req.announcement_id
    /\ resp["p1"].existed /\ resp["p2"].existed
    /\ resp["p1"].status = 200
    /\ resp["p2"].status = 500
    /\ resp["p2"].count = 0

\* C9: an update whose document a delete removed between its existence check and
\* its update_one still answers 200, writes nothing and does not bring the
\* document back: an id once deleted is in the collection in no later state.
C9_UpdateRaceNoOp ==
    /\ [](/\ deleted \cap DOMAIN announcements = {}
          /\ \A p \in Procs :
                (pc[p] = "done" /\ resp[p].req.op = "update" /\ resp[p].count = 0)
                => /\ resp[p].status = 200
                   /\ resp[p].existed
                   /\ Oid(resp[p].req) \in deleted)
    /\ [][\A p \in Procs :
            (/\ pc[p] = "update"
             /\ pc'[p] = "done"
             /\ Oid(local[p].req) \notin DOMAIN announcements)
            => (resp'[p].status = 200 /\ announcements' = announcements)]_vars

\* an update found its document, a delete removed it, the update answered 200
C9_Witness ==
    /\ pc["p1"] = "done"
    /\ resp["p1"].req.op = "update"
    /\ resp["p1"].status = 200
    /\ resp["p1"].count = 0
    /\ resp["p1"].existed
    /\ Oid(resp["p1"].req) \in deleted

====
